---- MODULE Spec2Model ----
(***************************************************************************)
(* A state-machine model of src/BuildView.tsx: the BuildView component's   *)
(* React state, the props its parent supplies, the requests it has in      *)
(* flight, and one action per handler / effect.  A handler together with   *)
(* the effects React runs after the render it causes is one atomic action  *)
(* (JavaScript is single-threaded; an await is the only suspension point,  *)
(* and every await is a network round-trip modelled as a pending request). *)
(***************************************************************************)
EXTENDS Integers, Sequences, FiniteSets, TLC

\* ----------------------------------------------------------------- bounds
MaxTranscript == 3      \* longest transcript explored
MaxHistory == 2         \* longest server history explored
MaxInFlight == 2        \* requests outstanding at once
MaxCalls == 2           \* create-agent / create-session calls counted
MaxQuestions == 2       \* longest clarification question list explored

\* ------------------------------------------------------ program constants
BuildStepsLen == 5      \* buildSteps.length
TicksPerStep == 10      \* the divisor 10 of the progress increment
ProgressDone == 100     \* the completion threshold

\* --------------------------------------------------------------- domains
NoMsg == "<none>"       \* message_to_user absent (undefined)
ServerMsgs == {"m1"}
HistEntries == ServerMsgs \cup {NoMsg}

Prompts == {"", "p1", "p2"}

\* What the user may have typed into the chat box (raw, before trim()).
RawInputs == {"", "  ", "hi", " m1 "}

ServerStates ==
  { "WAITING_FOR_USER_INPUT", "CONFIGURATION_PROPOSED", "CONFIGURATION_FINALIZED",
    "FAILED", "REQUEST_DB_CREDENTIALS", "COMPLETED", "DB_CONNECTION_FAILED",
    "INITIATED" }

UiRequests == {"none", "REQUEST_DB_CREDENTIALS"}

NoId == 0               \* savedAgentId null / an id field that is undefined
AgentIds == {8}

\* agent_config values; isNull marks a null / absent agent_config.
NullConfig ==
  [isNull |-> TRUE, oauth |-> <<>>, tools |-> {}, database_credentials |-> FALSE,
   id |-> NoId]
CfgPlain ==
  [isNull |-> FALSE, oauth |-> <<"google", "jira">>, tools |-> {},
   database_credentials |-> FALSE, id |-> 7]
CfgDb ==
  [isNull |-> FALSE, oauth |-> <<>>, tools |-> {"supabase_query"},
   database_credentials |-> TRUE, id |-> NoId]
ServerConfigs == {NullConfig, CfgPlain, CfgDb}

NoSession ==
  [build_id |-> 0, state |-> "none", history |-> <<>>, agent_config |-> NullConfig,
   ui_request |-> "none"]

DefaultConnectionConfig ==
  [hostname |-> "", username |-> "", password |-> "", database |-> "", port |-> "5432"]
ConnFields == {"hostname", "username", "password", "database", "port"}
ConnValues == {"x"}

\* The analysis service's answers (workflowAnalysisService.analyzeUserPrompt).
QNames == << "q1", "q2", "q3", "q4" >>
QuestionLists == {SubSeq(QNames, 1, k) : k \in 0..MaxQuestions}
Answers == {"a1", "a2"}
HelpPlan == "I'll help you build it"
PlanTexts == {"", "plan", HelpPlan}
AnalysisResults ==
  { r \in [projectPlan : PlanTexts, needsClarification : BOOLEAN,
           hasQuestions : BOOLEAN, suggestedQuestions : QuestionLists] :
      ~r.hasQuestions => r.suggestedQuestions = << >> }

ReqKinds ==
  {"create", "message", "connection", "upload", "save", "analysis", "reanalysis",
   "chat"}
ReqKeys == ReqKinds \X (0..MaxCalls)

VARIABLES
  userPrompt,           \* prop
  isBuilding,           \* prop
  buildProgress,        \* prop
  isAgentReady,         \* prop
  buildSession,
  chatMessages,
  showThinking,
  showArchitecture,
  showConnectionModal,
  connectionConfig,
  agentConfig,
  savedAgentId,
  pending,              \* requests in flight: ReqKeys -> count
  crashed,              \* an effect threw: React unmounted the component
  waitingForClarification,
  clarificationQuestions,
  currentQuestionIndex,
  showProjectPlan,
  projectPlanText,
  currentTypingIndex,
  \* observation variables (written, never read by the handlers)
  event,                \* what ran last: "snapshot", "prompt", "send", "tick", "fail",
                        \* "reanalysis", "analysisfail", "approved",
                        \* "approvedtemplate", "ignored", "chat", "chatreply",
                        \* "other"
  createAgentCalls,     \* POST /agents issued
  createSessionCalls,   \* POST /builds issued
  sessionsIssued,       \* build ids the server has handed out
  finalizedSeen,        \* a CONFIGURATION_FINALIZED snapshot with a configuration was applied
  connOk,               \* a continue call carrying a connection string returned successfully
  touched,              \* the transcript was changed by something else since the last snapshot
  repeatMsg,            \* the last snapshot repeated its predecessor's message, nothing in between
  signals,              \* onBuildComplete calls in the current run of the progress simulator
  roundStarted,         \* a clarification round has begun
  roundPairs,           \* the question/answer pairs given in the current round
  roundCalls,           \* re-analysis requests issued in the current round
  augmentedPrompt,      \* the prompt of the round's re-analysis request
  projectApproved,
  nodes,
  edges,
  approvals,            \* handleProjectApproval calls suspended at an await
  activeIntervals,      \* intervals created by setInterval and not yet cleared
  effectInterval,       \* the progress effect's last run holds a live interval
  lastResponse,         \* observation: the body of the last successful session response
  overlap,              \* observation: a response was applied while another request was out
  observedFinal,        \* observation: a CONFIGURATION_FINALIZED or COMPLETED snapshot was applied
  ticksSinceStart,      \* observation: ticks since progress was last reported as 0
  unhandledLog,         \* observation: the session effect's last run logged an unhandled state
  reanalysisNeeds,      \* observation: the last re-analysis result asked for clarification
  edgeNodes,            \* observation: the node list the stored edges were built from
  graphInput,           \* observation: the list last given to generateGenericArchitecture
  showDatabaseChat,
  databaseMessages,
  isDatabaseThinking

vars ==
  << userPrompt, isBuilding, buildProgress, isAgentReady, buildSession, chatMessages,
     showThinking, showArchitecture, showConnectionModal, connectionConfig, agentConfig,
     savedAgentId, pending, crashed, event, createAgentCalls, createSessionCalls,
     sessionsIssued, finalizedSeen, connOk, touched, repeatMsg, signals,
     waitingForClarification, clarificationQuestions, currentQuestionIndex,
     showProjectPlan, projectPlanText, currentTypingIndex, roundStarted, roundPairs,
     roundCalls, augmentedPrompt, projectApproved, nodes, edges, approvals,
     activeIntervals, effectInterval, lastResponse, overlap, observedFinal,
     ticksSinceStart, unhandledLog, reanalysisNeeds, edgeNodes, graphInput,
     showDatabaseChat, databaseMessages, isDatabaseThinking >>

\* The clarification sequencer's and the project plan's state.
analysisVars ==
  << waitingForClarification, clarificationQuestions, currentQuestionIndex,
     showProjectPlan, projectPlanText, currentTypingIndex, roundStarted, roundPairs,
     roundCalls, augmentedPrompt >>

\* The approval flow's and the architecture graph's state.
approvalVars == << projectApproved, nodes, edges, approvals >>

\* The progress effect's interval.
timerVars == << activeIntervals, effectInterval >>

responseVars == << lastResponse, overlap, observedFinal >>

obsVars == << ticksSinceStart, unhandledLog, reanalysisNeeds, edgeNodes, graphInput >>

\* The post-build agent chat.
chatVars == << showDatabaseChat, databaseMessages, isDatabaseThinking >>

\* graphInput before generateGenericArchitecture was ever called.
NoGraphInput == [built |-> FALSE, list |-> << >>]

\* --------------------------------------------------------------- helpers
Msg(type, content) == [type |-> type, content |-> content]

Last(s) == s[Len(s)]

\* String.prototype.trim on the inputs explored.
Trim(s) ==
  CASE s = "  " -> ""
    [] s = " m1 " -> "m1"
    [] OTHER -> s

InFlight == \* total number of outstanding requests
  LET RECURSIVE Sum(_)
      Sum(S) == IF S = {} THEN 0
                ELSE LET k == CHOOSE x \in S : TRUE IN pending[k] + Sum(S \ {k})
  IN Sum(ReqKeys)

Issue(p, key) == [p EXCEPT ![key] = @ + 1]
Settle(p, key) == [p EXCEPT ![key] = @ - 1]

\* buildSession.history[buildSession.history.length - 1]?.message_to_user
LastMessage(s) == IF Len(s.history) = 0 THEN NoMsg ELSE Last(s.history)

\* The functional update of setChatMessages in the session effect.
AppendNoDedup(prev, lastMessage) ==
  IF lastMessage # NoMsg THEN Append(prev, Msg("agent", lastMessage)) ELSE prev

AppendAgentMessage(prev, lastMessage) ==
  IF lastMessage # NoMsg
  THEN IF Len(prev) = 0 \/ Last(prev).content # lastMessage
       THEN Append(prev, Msg("agent", lastMessage))
       ELSE prev
  ELSE prev


\* ------------------------------------------------- the parent (props owner)
\* The parent component owns isBuilding, buildProgress and isAgentReady and is not
\* part of the source file; it is modelled from the callbacks' use.
\* onProgressUpdate(p): stores p; a report of 0 starts the building state.
ParentBuilding(p, cur) == IF p = 0 THEN TRUE ELSE cur

\* onBuildComplete(): the build is over and the agent is ready.
ParentBuildingOnComplete == FALSE

\* ------------------------------------------------- the completion message
\* requiredConnections.includes(c) / connections.includes(c)
Includes(seq, c) == \E i \in 1..Len(seq) : seq[i] = c

\* capabilities.join(", ")
RECURSIVE JoinComma(_)
JoinComma(seq) ==
  IF Len(seq) = 0 THEN ""
  ELSE IF Len(seq) = 1 THEN seq[1]
  ELSE seq[1] \o ", " \o JoinComma(Tail(seq))

AgentTypeJiraFirst(config) ==
  IF Includes(config.oauth, "gmail") \/ Includes(config.oauth, "google")
  THEN "Email Management"
  ELSE IF Includes(config.oauth, "jira") THEN "Project Management"
  ELSE IF Includes(config.oauth, "slack") THEN "Communication"
  ELSE IF "supabase_query" \in config.tools THEN "Database"
  ELSE "General Purpose AI"

AgentType(config) ==
  IF Includes(config.oauth, "gmail") \/ Includes(config.oauth, "google")
  THEN "Email Management"
  ELSE IF Includes(config.oauth, "slack") THEN "Communication"
  ELSE IF Includes(config.oauth, "jira") THEN "Project Management"
  ELSE IF "supabase_query" \in config.tools THEN "Database"
  ELSE "General Purpose AI"

Capabilities(config) ==
  IF Includes(config.oauth, "gmail") \/ Includes(config.oauth, "google")
  THEN << "Gmail integration", "email automation" >>
  ELSE IF Includes(config.oauth, "slack")
  THEN << "Slack integration", "team collaboration" >>
  ELSE IF Includes(config.oauth, "jira")
  THEN << "Jira integration", "issue tracking" >>
  ELSE IF "supabase_query" \in config.tools
  THEN << "database queries", "data analysis" >>
  ELSE IF Len(config.oauth) > 0 THEN config.oauth
  ELSE << "intelligent conversation" >>

generateAgentSuccessMessage(config) ==
  IF config.isNull
  THEN "Your AI agent is ready! You can now test and deploy it."
  ELSE "Your " \o AgentType(config) \o " agent is ready! You can now test it"
         \o (IF Len(Capabilities(config)) > 0
             THEN " with " \o JoinComma(Capabilities(config)) \o " capabilities"
             ELSE "")
         \o " and start leveraging its features."

\* Every announcement generateAgentSuccessMessage can produce for the
\* configurations explored.
SuccessMessages == {generateAgentSuccessMessage(c) : c \in ServerConfigs}

\* msg.content.includes('Agent built successfully'), on the contents explored:
\* no announcement and no prompt, input or server message explored holds the phrase.
IncludesBuiltSuccessfully(content) == content = "Agent built successfully"

\* setAgentConfig(c): the dependency agentConfig changes unless null replaces null
\* (a parsed response body is always a new object).
ConfigChanged(old, new) == ~(old.isNull /\ new.isNull)

\* The completion-message effect, deps [isAgentReady, agentConfig].
CompletionEffect(msgs, ready, config, depsChanged) ==
  IF depsChanged /\ ready
       /\ ~(\E i \in 1..Len(msgs) : IncludesBuiltSuccessfully(msgs[i].content))
  THEN Append(msgs, Msg("agent", generateAgentSuccessMessage(config)))
  ELSE msgs

\* ------------------------------------------------- the progress effect
\* The cleanup of the effect's previous run: return () => clearInterval(interval)
KeepsPrevious(n, held) == n

ClearsPrevious(n, held) == IF held THEN n - 1 ELSE n

\* The effect, deps [isBuilding, buildProgress, ...]: cleanup, then
\* if (isBuilding) setInterval(...).
IntervalsAfterEffect(n, held, building, depsChanged) ==
  IF depsChanged
  THEN ClearsPrevious(n, held) + (IF building THEN 1 ELSE 0)
  ELSE n

HeldAfterEffect(held, building, depsChanged) ==
  IF depsChanged THEN building ELSE held

\* Requests whose response replaces the session.
SessionKinds == {"create", "message", "connection", "upload"}

SessionRequests(p) ==
  LET RECURSIVE Sum(_)
      Sum(S) == IF S = {} THEN 0
                ELSE LET k == CHOOSE x \in S : TRUE IN p[k] + Sum(S \ {k})
  IN Sum({k \in ReqKeys : k[1] \in SessionKinds})

\* setBuildSession(updatedSession): the body replaces the stored snapshot.
MergedSnapshot(s, old) ==
  IF s.agent_config.isNull THEN [s EXCEPT !.agent_config = old.agent_config] ELSE s

StoredSnapshot(s, old) == s

\* ------------------------------------------------------ the session effect
\* The switch on buildSession.state: setShowThinking(false)
ThinkingAfter(state, cur) ==
  IF state \in {"WAITING_FOR_USER_INPUT", "CONFIGURATION_PROPOSED",
                "CONFIGURATION_FINALIZED", "FAILED"}
  THEN FALSE ELSE cur

\* ui_request handling followed by the switch: the last setShowConnectionModal wins.
ModalClosedOnFailure(s, cur) ==
  CASE s.state = "COMPLETED" -> FALSE
    [] s.state = "DB_CONNECTION_FAILED" -> FALSE
    [] s.state = "REQUEST_DB_CREDENTIALS" -> TRUE
    [] s.ui_request = "REQUEST_DB_CREDENTIALS" -> TRUE
    [] OTHER -> cur

ModalAfter(s, cur) ==
  CASE s.state = "COMPLETED" -> FALSE
    [] s.state \in {"REQUEST_DB_CREDENTIALS", "DB_CONNECTION_FAILED"} -> TRUE
    [] s.ui_request = "REQUEST_DB_CREDENTIALS" -> TRUE
    [] OTHER -> cur

\* The switch on buildSession.state has no default case: a state it does not
\* name runs no statement, and nothing is logged.
LogsUnhandled(state) == FALSE

\* buildSession.agent_config.id on a null agent_config: a TypeError in the effect.
EffectThrows(s) == s.state = "COMPLETED" /\ s.agent_config.isNull

\* saveAgentConfig(config): the POST is issued unless building agentData throws
\* (config.agent_name on null), which the try block swallows.
SaveIssued(config) == ~config.isNull

\* The number of saveAgentConfig requests the effect issues for snapshot s.
EffectSavesAlsoCompleted(s) ==
  IF s.state \in {"CONFIGURATION_FINALIZED", "COMPLETED"} /\ SaveIssued(s.agent_config)
  THEN 1 ELSE 0

EffectSaves(s) ==
  IF s.state = "CONFIGURATION_FINALIZED" /\ SaveIssued(s.agent_config) THEN 1 ELSE 0

\* onProgressUpdate(0) in the CONFIGURATION_FINALIZED and COMPLETED cases.
ResetsProgress(state) == state \in {"CONFIGURATION_FINALIZED", "COMPLETED"}

StoresConfig(state) == state \in {"CONFIGURATION_FINALIZED", "COMPLETED"}

\* setBuildSession(s) and the effect that reacts to it; p is pending after the
\* response was taken off it.
SetBuildSession(s, p) ==
  /\ buildSession' = StoredSnapshot(s, buildSession)
  /\ lastResponse' = s
  /\ overlap' = (overlap \/ SessionRequests(p) > 0)
  /\ unhandledLog' = LogsUnhandled(s.state)
  /\ IF EffectThrows(s)
     THEN /\ crashed' = TRUE
          /\ pending' = p
          /\ repeatMsg' = FALSE
          /\ UNCHANGED << chatMessages, showThinking, showArchitecture,
                          showConnectionModal, agentConfig, savedAgentId, isBuilding,
                          buildProgress, createAgentCalls, finalizedSeen, touched,
                          signals, timerVars, observedFinal, ticksSinceStart >>
     ELSE /\ crashed' = crashed
          /\ agentConfig' = IF StoresConfig(s.state) THEN s.agent_config ELSE agentConfig
          /\ chatMessages' =
               CompletionEffect(AppendAgentMessage(chatMessages, LastMessage(s)),
                                isAgentReady, agentConfig',
                                StoresConfig(s.state)
                                  /\ ConfigChanged(agentConfig, agentConfig'))
          /\ Len(chatMessages') <= MaxTranscript
          /\ repeatMsg' = (/\ ~touched
                           /\ LastMessage(s) # NoMsg
                           /\ LastMessage(s) = LastMessage(buildSession))
          /\ touched' = (chatMessages' # AppendAgentMessage(chatMessages, LastMessage(s)))
          /\ showConnectionModal' = ModalAfter(s, showConnectionModal)
          /\ showThinking' = ThinkingAfter(s.state, showThinking)
          /\ savedAgentId' = IF s.state = "COMPLETED" THEN s.agent_config.id
                             ELSE savedAgentId
          /\ showArchitecture' = IF StoresConfig(s.state) THEN TRUE ELSE showArchitecture
          /\ createAgentCalls + EffectSaves(s) <= MaxCalls
          /\ createAgentCalls' = createAgentCalls + EffectSaves(s)
          /\ pending' = IF EffectSaves(s) = 1 THEN Issue(p, <<"save", 0>>) ELSE p
          /\ finalizedSeen' = (finalizedSeen \/
                                 (s.state = "CONFIGURATION_FINALIZED"
                                  /\ ~s.agent_config.isNull))
          /\ observedFinal' = (observedFinal \/ ResetsProgress(s.state))
          /\ ticksSinceStart' = IF ResetsProgress(s.state) THEN 0 ELSE ticksSinceStart
          /\ IF ResetsProgress(s.state)
             THEN /\ buildProgress' = 0
                  /\ isBuilding' = ParentBuilding(0, isBuilding)
                  /\ signals' = IF isBuilding THEN signals ELSE 0
             ELSE UNCHANGED << buildProgress, isBuilding, signals >>
          /\ activeIntervals' =
               IntervalsAfterEffect(activeIntervals, effectInterval, isBuilding',
                                    << isBuilding', buildProgress' >>
                                      # << isBuilding, buildProgress >>)
          /\ effectInterval' =
               HeldAfterEffect(effectInterval, isBuilding',
                               << isBuilding', buildProgress' >>
                                 # << isBuilding, buildProgress >>)
  /\ UNCHANGED << userPrompt, isAgentReady, connectionConfig, createSessionCalls,
                  analysisVars, approvalVars, reanalysisNeeds, edgeNodes, graphInput,
                  chatVars >>

\* --------------------------------------------------------------- mounting
\* The state after the first render and its effects: the start-build effect has
\* issued POST /builds and the transcript effect has stored the prompt, when the
\* prompt is not empty.
Init ==
  /\ userPrompt \in {"", "p1"}
  /\ isBuilding = FALSE
  /\ buildProgress = 0
  /\ isAgentReady = FALSE
  /\ buildSession = NoSession
  /\ chatMessages = IF userPrompt # "" THEN << Msg("user", userPrompt) >> ELSE << >>
  /\ showThinking = TRUE
  /\ showArchitecture = FALSE
  /\ showConnectionModal = FALSE
  /\ connectionConfig = DefaultConnectionConfig
  /\ agentConfig = NullConfig
  /\ savedAgentId = NoId
  /\ pending = [k \in ReqKeys |->
                  IF k = <<"create", 0>> /\ userPrompt # "" THEN 1 ELSE 0]
  /\ crashed = FALSE
  /\ event = "mount"
  /\ createAgentCalls = 0
  /\ createSessionCalls = IF userPrompt # "" THEN 1 ELSE 0
  /\ sessionsIssued = 0
  /\ finalizedSeen = FALSE
  /\ connOk = FALSE
  /\ touched = FALSE
  /\ repeatMsg = FALSE
  /\ signals = 0
  /\ waitingForClarification = FALSE
  /\ clarificationQuestions = << >>
  /\ currentQuestionIndex = 0
  /\ showProjectPlan = FALSE
  /\ projectPlanText = ""
  /\ currentTypingIndex = 0
  /\ roundStarted = FALSE
  /\ roundPairs = << >>
  /\ roundCalls = 0
  /\ augmentedPrompt = << >>
  /\ projectApproved = FALSE
  /\ nodes = << >>
  /\ edges = << >>
  /\ approvals = << >>
  /\ activeIntervals = 0
  /\ effectInterval = FALSE
  /\ lastResponse = NoSession
  /\ overlap = FALSE
  /\ observedFinal = FALSE
  /\ ticksSinceStart = 0
  /\ unhandledLog = FALSE
  /\ reanalysisNeeds = FALSE
  /\ edgeNodes = << >>
  /\ graphInput = NoGraphInput
  /\ showDatabaseChat = FALSE
  /\ databaseMessages = << >>
  /\ isDatabaseThinking = FALSE

\* ------------------------------------------------------ the userPrompt prop
\* The start-build effect: if (!userPrompt || buildSession) return; startBuild()
StartsBuildAlways(prompt, session) == prompt # ""

StartsBuild(prompt, session) == prompt # "" /\ session = NoSession

\* The parent passes a new userPrompt: both effects with [userPrompt] run.
ChangeUserPrompt(p) ==
  /\ ~crashed
  /\ p # userPrompt
  /\ userPrompt' = p
  /\ event' = "prompt"
  /\ IF StartsBuild(p, buildSession)
     THEN /\ createSessionCalls < MaxCalls
          /\ InFlight < MaxInFlight
          /\ createSessionCalls' = createSessionCalls + 1
          /\ pending' = Issue(pending, <<"create", 0>>)
     ELSE UNCHANGED << createSessionCalls, pending >>
  /\ IF p # ""
     THEN chatMessages' = << Msg("user", p) >> /\ touched' = TRUE
     ELSE UNCHANGED << chatMessages, touched >>
  /\ repeatMsg' = FALSE
  /\ UNCHANGED << isBuilding, buildProgress, isAgentReady, buildSession, showThinking,
                  showArchitecture, showConnectionModal, connectionConfig, agentConfig,
                  savedAgentId, crashed, createAgentCalls, sessionsIssued,
                  finalizedSeen, connOk, signals,
                  analysisVars,
                  approvalVars, timerVars, responseVars, obsVars,
                  chatVars >>

\* -------------------------------------------------------------- handlers
AppendUserDedup(prev, content) ==
  IF Len(prev) > 0 /\ Last(prev).content = content THEN prev
  ELSE Append(prev, Msg("user", content))

\* setChatMessages(prev => [...prev, userMessage])
AppendUserMessage(prev, content) == Append(prev, Msg("user", content))

\* The chat form: the textarea and the submit button are disabled while
\* isBuilding || showThinking.
ChatInputEnabled == ~isBuilding /\ ~showThinking

SendAcceptedUntrimmed(raw, session) == raw # "" /\ session # NoSession

\* if (newMessage.trim() && buildSession)
SendAccepted(raw, session) == Trim(raw) # "" /\ session # NoSession

HandleSendMessage(raw) ==
  /\ ~crashed
  /\ ChatInputEnabled
  /\ SendAccepted(raw, buildSession)
  /\ Len(chatMessages) < MaxTranscript
  /\ InFlight < MaxInFlight
  /\ chatMessages' = AppendUserMessage(chatMessages, Trim(raw))
  /\ showThinking' = TRUE
  /\ pending' = Issue(pending, <<"message", buildSession.build_id>>)
  /\ event' = "send"
  /\ touched' = TRUE
  /\ repeatMsg' = FALSE
  /\ UNCHANGED << userPrompt, isBuilding, buildProgress, isAgentReady, buildSession,
                  showArchitecture, showConnectionModal, connectionConfig, agentConfig,
                  savedAgentId, crashed, createAgentCalls, createSessionCalls,
                  sessionsIssued, finalizedSeen, connOk, signals,
                  analysisVars,
                  approvalVars, timerVars, responseVars, obsVars,
                  chatVars >>

\* handleSendMessage when its condition fails: nothing happens.
HandleSendMessageIgnored(raw) ==
  /\ ~crashed
  /\ ChatInputEnabled
  /\ ~SendAccepted(raw, buildSession)
  /\ event' = "ignored"
  /\ repeatMsg' = FALSE
  /\ UNCHANGED << userPrompt, isBuilding, buildProgress, isAgentReady, buildSession,
                  chatMessages, showThinking, showArchitecture, showConnectionModal,
                  connectionConfig, agentConfig, savedAgentId, pending, crashed,
                  createAgentCalls, createSessionCalls, sessionsIssued, finalizedSeen,
                  connOk, touched, signals, analysisVars, approvalVars, timerVars,
                  responseVars, obsVars, chatVars >>

\* The credential form lives in the connection modal.
HandleConnectionSubmit ==
  /\ ~crashed
  /\ showConnectionModal
  /\ buildSession # NoSession
  /\ InFlight < MaxInFlight
  /\ pending' = Issue(pending, <<"connection", buildSession.build_id>>)
  /\ event' = "other"
  /\ repeatMsg' = FALSE
  /\ UNCHANGED << userPrompt, isBuilding, buildProgress, isAgentReady, buildSession,
                  chatMessages, showThinking, showArchitecture, showConnectionModal,
                  connectionConfig, agentConfig, savedAgentId, crashed,
                  createAgentCalls, createSessionCalls, sessionsIssued, finalizedSeen,
                  connOk, touched, signals,
                  analysisVars,
                  approvalVars, timerVars, responseVars, obsVars,
                  chatVars >>

\* handleConnectionSubmit without a session: an alert and return.
HandleConnectionSubmitIgnored ==
  /\ ~crashed
  /\ showConnectionModal
  /\ buildSession = NoSession
  /\ event' = "ignored"
  /\ repeatMsg' = FALSE
  /\ UNCHANGED << userPrompt, isBuilding, buildProgress, isAgentReady, buildSession,
                  chatMessages, showThinking, showArchitecture, showConnectionModal,
                  connectionConfig, agentConfig, savedAgentId, pending, crashed,
                  createAgentCalls, createSessionCalls, sessionsIssued, finalizedSeen,
                  connOk, touched, signals, analysisVars, approvalVars, timerVars,
                  responseVars, obsVars, chatVars >>

\* FileUploadModal onUpload
UploadFile ==
  /\ ~crashed
  /\ buildSession # NoSession
  /\ InFlight < MaxInFlight
  /\ pending' = Issue(pending, <<"upload", buildSession.build_id>>)
  /\ event' = "other"
  /\ repeatMsg' = FALSE
  /\ UNCHANGED << userPrompt, isBuilding, buildProgress, isAgentReady, buildSession,
                  chatMessages, showThinking, showArchitecture, showConnectionModal,
                  connectionConfig, agentConfig, savedAgentId, crashed,
                  createAgentCalls, createSessionCalls, sessionsIssued, finalizedSeen,
                  connOk, touched, signals,
                  analysisVars,
                  approvalVars, timerVars, responseVars, obsVars,
                  chatVars >>

\* onUpload without a session: if (!buildSession) return
UploadFileIgnored ==
  /\ ~crashed
  /\ buildSession = NoSession
  /\ event' = "ignored"
  /\ repeatMsg' = FALSE
  /\ UNCHANGED << userPrompt, isBuilding, buildProgress, isAgentReady, buildSession,
                  chatMessages, showThinking, showArchitecture, showConnectionModal,
                  connectionConfig, agentConfig, savedAgentId, pending, crashed,
                  createAgentCalls, createSessionCalls, sessionsIssued, finalizedSeen,
                  connOk, touched, signals, analysisVars, approvalVars, timerVars,
                  responseVars, obsVars, chatVars >>

\* The modal's close button.
CloseConnectionModal ==
  /\ ~crashed
  /\ showConnectionModal
  /\ showConnectionModal' = FALSE
  /\ event' = "other"
  /\ repeatMsg' = FALSE
  /\ UNCHANGED << userPrompt, isBuilding, buildProgress, isAgentReady, buildSession,
                  chatMessages, showThinking, showArchitecture, connectionConfig,
                  agentConfig, savedAgentId, pending, crashed, createAgentCalls,
                  createSessionCalls, sessionsIssued, finalizedSeen, connOk, touched,
                  signals,
                  analysisVars,
                  approvalVars, timerVars, responseVars, obsVars,
                  chatVars >>

\* An input of the credential form: setConnectionConfig(prev => ({...prev, f: v}))
EditConnectionField(f, v) ==
  /\ ~crashed
  /\ showConnectionModal
  /\ connectionConfig[f] # v
  /\ connectionConfig' = [connectionConfig EXCEPT ![f] = v]
  /\ event' = "other"
  /\ repeatMsg' = FALSE
  /\ UNCHANGED << userPrompt, isBuilding, buildProgress, isAgentReady, buildSession,
                  chatMessages, showThinking, showArchitecture, showConnectionModal,
                  agentConfig, savedAgentId, pending, crashed, createAgentCalls,
                  createSessionCalls, sessionsIssued, finalizedSeen, connOk, touched,
                  signals,
                  analysisVars,
                  approvalVars, timerVars, responseVars, obsVars,
                  chatVars >>


\* ------------------------------------------------------------- responses
\* The server owns the history and only ever appends to it.
NextHistories(h) ==
  {h} \cup (IF Len(h) < MaxHistory THEN {Append(h, e) : e \in HistEntries} ELSE {})

\* Response bodies: every BuildSession over the given field values.
Snapshots(states, configs, uiRequests) ==
  [build_id : 1..MaxCalls, state : states, history : {<< >>},
   agent_config : configs, ui_request : uiRequests]

SnapshotsWithHistory(states, entries) ==
  [build_id : 1..MaxCalls, state : states,
   history : UNION {[1..n -> entries] : n \in 0..MaxHistory},
   agent_config : {NullConfig}, ui_request : {"none"}]

\* POST /builds answered 2xx with body s: setBuildSession(session)
CreateResolves(s) ==
  /\ ~crashed
  /\ pending[<<"create", 0>>] > 0
  /\ s.build_id = sessionsIssued + 1
  /\ s.history \in NextHistories(<< >>)
  /\ SetBuildSession(s, Settle(pending, <<"create", 0>>))
  /\ sessionsIssued' = sessionsIssued + 1
  /\ event' = "snapshot"
  /\ UNCHANGED connOk

\* continue (message or connection string) or upload_file answered 2xx with body s:
\* setBuildSession(updatedSession)
ContinueResolves(kind, s) ==
  /\ ~crashed
  /\ pending[<<kind, s.build_id>>] > 0
  /\ s.history \in NextHistories(buildSession.history)
  /\ SetBuildSession(s, Settle(pending, <<kind, s.build_id>>))
  /\ connOk' = (connOk \/ (kind = "connection" /\ s.state # "DB_CONNECTION_FAILED"))
  /\ event' = "snapshot"
  /\ UNCHANGED sessionsIssued

\* What a catch block of create / continue / upload leaves in buildSession: the
\* throw precedes setBuildSession, so the stored snapshot stays.
SnapshotDroppedOnFailure(cur) == NoSession

SnapshotOnFailure(cur) == cur

\* A create, continue or upload call fails (network error or non-2xx): the catch
\* block logs (and, for the credential form, alerts).
RequestFails(kind, id) ==
  /\ ~crashed
  /\ pending[<<kind, id>>] > 0
  /\ pending' = Settle(pending, <<kind, id>>)
  /\ buildSession' = SnapshotOnFailure(buildSession)
  /\ event' = "fail"
  /\ repeatMsg' = FALSE
  /\ UNCHANGED << userPrompt, isBuilding, buildProgress, isAgentReady,
                  chatMessages, showThinking, showArchitecture, showConnectionModal,
                  connectionConfig, agentConfig, savedAgentId, crashed,
                  createAgentCalls, createSessionCalls, sessionsIssued, finalizedSeen,
                  connOk, touched, signals,
                  analysisVars,
                  approvalVars, timerVars, responseVars, obsVars,
                  chatVars >>

\* POST /agents of saveAgentConfig answered: setSavedAgentId(savedAgent.id) on 2xx,
\* a log otherwise.
SaveResolves(ok, id) ==
  /\ ~crashed
  /\ pending[<<"save", 0>>] > 0
  /\ pending' = Settle(pending, <<"save", 0>>)
  /\ savedAgentId' = IF ok THEN id ELSE savedAgentId
  /\ event' = "other"
  /\ repeatMsg' = FALSE
  /\ UNCHANGED << userPrompt, isBuilding, buildProgress, isAgentReady, buildSession,
                  chatMessages, showThinking, showArchitecture, showConnectionModal,
                  connectionConfig, agentConfig, crashed, createAgentCalls,
                  createSessionCalls, sessionsIssued, finalizedSeen, connOk, touched,
                  signals,
                  analysisVars,
                  approvalVars, timerVars, responseVars, obsVars,
                  chatVars >>

\* ------------------------------------------------- the progress simulator
\* buildProgress + (100 / buildSteps.length / 10)
NewProgressPerStep(p) == p + 100 \div BuildStepsLen

NewProgress(p) == p + (100 \div BuildStepsLen) \div TicksPerStep

\* The effect arms its interval only if (isBuilding).
TimerAlways(building) == TRUE

TimerArmed(building) == building

\* One tick of the interval: the callback, the parent's re-render and the effects
\* that follow it (the progress effect re-runs, the completion-message effect runs
\* when isAgentReady turns true).
Tick ==
  /\ ~crashed
  /\ TimerArmed(isBuilding)
  /\ LET newProgress == NewProgress(buildProgress) IN
       IF newProgress >= ProgressDone
       THEN /\ signals < MaxCalls
            /\ signals' = signals + 1
            /\ isBuilding' = ParentBuildingOnComplete
            /\ isAgentReady' = TRUE
            /\ buildProgress' = ProgressDone
            /\ activeIntervals' =
                 IntervalsAfterEffect(activeIntervals - 1, FALSE, isBuilding',
                                      << isBuilding', buildProgress' >>
                                        # << isBuilding, buildProgress >>)
            /\ effectInterval' =
                 HeldAfterEffect(FALSE, isBuilding',
                                 << isBuilding', buildProgress' >>
                                   # << isBuilding, buildProgress >>)
       ELSE /\ buildProgress' = newProgress
            /\ isBuilding' = ParentBuilding(newProgress, isBuilding)
            /\ activeIntervals' =
                 IntervalsAfterEffect(activeIntervals, effectInterval, isBuilding',
                                      << isBuilding', buildProgress' >>
                                        # << isBuilding, buildProgress >>)
            /\ effectInterval' =
                 HeldAfterEffect(effectInterval, isBuilding',
                                 << isBuilding', buildProgress' >>
                                   # << isBuilding, buildProgress >>)
            /\ UNCHANGED << signals, isAgentReady >>
  /\ chatMessages' =
       CompletionEffect(chatMessages, isAgentReady', agentConfig,
                        isAgentReady' # isAgentReady)
  /\ touched' = (touched \/ chatMessages' # chatMessages)
  /\ ticksSinceStart' = ticksSinceStart + 1
  /\ event' = "tick"
  /\ repeatMsg' = FALSE
  /\ UNCHANGED << userPrompt, buildSession, showThinking, showArchitecture,
                  showConnectionModal, connectionConfig, agentConfig, savedAgentId,
                  pending, crashed, createAgentCalls, createSessionCalls,
                  sessionsIssued, finalizedSeen, connOk, analysisVars, approvalVars,
                  responseVars, unhandledLog, reanalysisNeeds, edgeNodes, graphInput,
                  chatVars >>

\* --------------------------------------- analysis and clarification rounds
\* Strings the code only measures or searches: projectPlanText.length and
\* msg.content.includes("I'll help you build").
PlanLength(t) == CASE t = "" -> 0 [] t = "plan" -> 1 [] OTHER -> 2

IncludesHelp(content) == content = HelpPlan

\* The transcript explored: a prompt or a plan, and one full round.
ClarifyTranscriptCap == 2 * MaxQuestions + 1

\* The plan-message effect, deps [showProjectPlan, currentTypingIndex,
\* projectPlanText]: it runs after a render in which one of them changed.
PlanMessageEffect(msgs, show, idx, text, depsChanged) ==
  IF depsChanged /\ show /\ idx = PlanLength(text)
       /\ ~(\E i \in 1..Len(msgs) : IncludesHelp(msgs[i].content))
  THEN Append(msgs, Msg("agent", text))
  ELSE msgs

\* clarificationQuestions[currentQuestionIndex]
QuestionAtFirst(questions, idx) ==
  IF 0 < Len(questions) THEN questions[1] ELSE "undefined"

QuestionAt(questions, idx) ==
  IF idx < Len(questions) THEN questions[idx + 1] ELSE "undefined"

\* if (currentQuestionIndex + 1 < clarificationQuestions.length)
HasNextQuestionOffByOne(idx, questions) == idx < Len(questions)

HasNextQuestion(idx, questions) == idx + 1 < Len(questions)

\* const responses = { [currentQuestion]: answer }; const allResponses = { ...responses }
\* as Object.entries(allResponses): the pairs that reach the prompt.
AllResponses(question, answer) == << << question, answer >> >>

\* `${userPrompt}\n\nUser clarifications:\n${entries.map(([q, a]) => `${q}: ${a}`).join('\n')}`
\* as the sequence of the pieces it concatenates.
RECURSIVE JoinPairs(_)
JoinPairs(pairs) ==
  IF Len(pairs) = 0 THEN << >>
  ELSE << pairs[1][1], ": ", pairs[1][2] >>
         \o (IF Len(pairs) > 1 THEN << "\n" >> \o JoinPairs(Tail(pairs)) ELSE << >>)

UpdatedPrompt(prompt, pairs) ==
  << prompt, "\n\nUser clarifications:\n" >> \o JoinPairs(pairs)

\* if (result.analysis.needsClarification && result.analysis.suggestedQuestions)
\* ([] is truthy: suggestedQuestions need only be present).
NeedsClarification(r) == r.needsClarification /\ r.hasQuestions

\* performLLMAnalysis: the analysis request for userPrompt.  The function has no
\* caller in the file; it is taken to be called while no round is open and no
\* analysis is outstanding.
PerformLLMAnalysis ==
  /\ ~crashed
  /\ ~waitingForClarification
  /\ pending[<<"analysis", 0>>] = 0 /\ pending[<<"reanalysis", 0>>] = 0
  /\ InFlight < MaxInFlight
  /\ pending' = Issue(pending, <<"analysis", 0>>)
  /\ event' = "other"
  /\ repeatMsg' = FALSE
  /\ UNCHANGED << userPrompt, isBuilding, buildProgress, isAgentReady, buildSession,
                  chatMessages, showThinking, showArchitecture, showConnectionModal,
                  connectionConfig, agentConfig, savedAgentId, crashed,
                  createAgentCalls, createSessionCalls, sessionsIssued, finalizedSeen,
                  connOk, touched, signals, analysisVars,
                  approvalVars, timerVars, responseVars, obsVars,
                  chatVars >>

\* performLLMAnalysis after its await, with the service's result r.
AnalysisResolves(r) ==
  /\ ~crashed
  /\ pending[<<"analysis", 0>>] > 0
  /\ pending' = Settle(pending, <<"analysis", 0>>)
  /\ projectPlanText' = r.projectPlan
  /\ IF NeedsClarification(r)
     THEN /\ clarificationQuestions' = r.suggestedQuestions
          /\ waitingForClarification' = TRUE
          /\ roundStarted' = TRUE
          /\ roundPairs' = << >>
          /\ roundCalls' = 0
          /\ augmentedPrompt' = << >>
          /\ UNCHANGED << showThinking, showProjectPlan, currentTypingIndex >>
     ELSE /\ showThinking' = FALSE
          /\ showProjectPlan' = TRUE
          /\ currentTypingIndex' = 0
          /\ UNCHANGED << clarificationQuestions, waitingForClarification,
                          roundStarted, roundPairs, roundCalls, augmentedPrompt >>
  /\ chatMessages' =
       PlanMessageEffect(chatMessages, showProjectPlan', currentTypingIndex',
                         projectPlanText',
                         << showProjectPlan', currentTypingIndex', projectPlanText' >>
                           # << showProjectPlan, currentTypingIndex, projectPlanText >>)
  /\ Len(chatMessages') <= ClarifyTranscriptCap
  /\ touched' = (touched \/ chatMessages' # chatMessages)
  /\ event' = "other"
  /\ repeatMsg' = FALSE
  /\ UNCHANGED << userPrompt, isBuilding, buildProgress, isAgentReady, buildSession,
                  showArchitecture, showConnectionModal, connectionConfig, agentConfig,
                  savedAgentId, crashed, createAgentCalls, createSessionCalls,
                  sessionsIssued, finalizedSeen, connOk, signals,
                  currentQuestionIndex,
                  approvalVars, timerVars, responseVars, obsVars,
                  chatVars >>

\* performLLMAnalysis: the catch block.
AnalysisFails ==
  /\ ~crashed
  /\ pending[<<"analysis", 0>>] > 0
  /\ pending' = Settle(pending, <<"analysis", 0>>)
  /\ showThinking' = FALSE
  /\ event' = "analysisfail"
  /\ repeatMsg' = FALSE
  /\ UNCHANGED << userPrompt, isBuilding, buildProgress, isAgentReady, buildSession,
                  chatMessages, showArchitecture, showConnectionModal,
                  connectionConfig, agentConfig, savedAgentId, crashed,
                  createAgentCalls, createSessionCalls, sessionsIssued, finalizedSeen,
                  connOk, touched, signals, analysisVars,
                  approvalVars, timerVars, responseVars, obsVars,
                  chatVars >>

\* handleClarificationAnswer(answer) up to its await.  The function has no caller
\* in the file; it is taken to be called while a question is being asked.
HandleClarificationAnswer(answer) ==
  LET currentQuestion == QuestionAt(clarificationQuestions, currentQuestionIndex)
      more == HasNextQuestion(currentQuestionIndex, clarificationQuestions)
  IN
  /\ ~crashed
  /\ waitingForClarification
  /\ more \/ InFlight < MaxInFlight
  /\ chatMessages' =
       chatMessages \o
         << Msg("agent", "To better understand your requirements, I need to know: "
                           \o currentQuestion),
            Msg("user", answer) >>
  /\ Len(chatMessages') <= ClarifyTranscriptCap
  /\ touched' = TRUE
  /\ roundPairs' = Append(roundPairs, << currentQuestion, answer >>)
  /\ IF more
     THEN /\ currentQuestionIndex' = currentQuestionIndex + 1
          /\ UNCHANGED << waitingForClarification, pending, roundCalls,
                          augmentedPrompt >>
     ELSE /\ waitingForClarification' = FALSE
          /\ currentQuestionIndex' = 0
          /\ pending' = Issue(pending, <<"reanalysis", 0>>)
          /\ roundCalls' = roundCalls + 1
          /\ augmentedPrompt' =
               UpdatedPrompt(userPrompt, AllResponses(currentQuestion, answer))
  /\ event' = "other"
  /\ repeatMsg' = FALSE
  /\ UNCHANGED << userPrompt, isBuilding, buildProgress, isAgentReady, buildSession,
                  showThinking, showArchitecture, showConnectionModal,
                  connectionConfig, agentConfig, savedAgentId, crashed,
                  createAgentCalls, createSessionCalls, sessionsIssued, finalizedSeen,
                  connOk, signals, clarificationQuestions, showProjectPlan,
                  projectPlanText, currentTypingIndex, roundStarted,
                  approvalVars, timerVars, responseVars, obsVars,
                  chatVars >>

\* handleClarificationAnswer after its await, with the service's result r.
ReanalysisResolves(r) ==
  /\ ~crashed
  /\ pending[<<"reanalysis", 0>>] > 0
  /\ pending' = Settle(pending, <<"reanalysis", 0>>)
  /\ projectPlanText' = r.projectPlan
  /\ showThinking' = FALSE
  /\ showProjectPlan' = TRUE
  /\ currentTypingIndex' = 0
  /\ chatMessages' =
       PlanMessageEffect(chatMessages, showProjectPlan', currentTypingIndex',
                         projectPlanText',
                         << showProjectPlan', currentTypingIndex', projectPlanText' >>
                           # << showProjectPlan, currentTypingIndex, projectPlanText >>)
  /\ Len(chatMessages') <= ClarifyTranscriptCap
  /\ touched' = (touched \/ chatMessages' # chatMessages)
  /\ reanalysisNeeds' = NeedsClarification(r)
  /\ event' = "reanalysis"
  /\ repeatMsg' = FALSE
  /\ UNCHANGED << userPrompt, isBuilding, buildProgress, isAgentReady, buildSession,
                  showArchitecture, showConnectionModal, connectionConfig, agentConfig,
                  savedAgentId, crashed, createAgentCalls, createSessionCalls,
                  sessionsIssued, finalizedSeen, connOk, signals,
                  waitingForClarification, clarificationQuestions,
                  currentQuestionIndex, roundStarted, roundPairs, roundCalls,
                  augmentedPrompt,
                  approvalVars, timerVars, responseVars, ticksSinceStart, unhandledLog,
                  edgeNodes, graphInput,
                  chatVars >>

\* handleClarificationAnswer: the catch block only logs.
ReanalysisFails ==
  /\ ~crashed
  /\ pending[<<"reanalysis", 0>>] > 0
  /\ pending' = Settle(pending, <<"reanalysis", 0>>)
  /\ event' = "analysisfail"
  /\ repeatMsg' = FALSE
  /\ UNCHANGED << userPrompt, isBuilding, buildProgress, isAgentReady, buildSession,
                  chatMessages, showThinking, showArchitecture, showConnectionModal,
                  connectionConfig, agentConfig, savedAgentId, crashed,
                  createAgentCalls, createSessionCalls, sessionsIssued, finalizedSeen,
                  connOk, touched, signals, analysisVars,
                  approvalVars, timerVars, responseVars, obsVars,
                  chatVars >>

\* The typing timer firing, and the plan-message effect of the render it causes.
TypeNext ==
  /\ ~crashed
  /\ showProjectPlan
  /\ currentTypingIndex < PlanLength(projectPlanText)
  /\ currentTypingIndex' = currentTypingIndex + 1
  /\ chatMessages' =
       PlanMessageEffect(chatMessages, showProjectPlan, currentTypingIndex',
                         projectPlanText, TRUE)
  /\ Len(chatMessages') <= ClarifyTranscriptCap
  /\ touched' = (touched \/ chatMessages' # chatMessages)
  /\ event' = "other"
  /\ repeatMsg' = FALSE
  /\ UNCHANGED << userPrompt, isBuilding, buildProgress, isAgentReady, buildSession,
                  showThinking, showArchitecture, showConnectionModal,
                  connectionConfig, agentConfig, savedAgentId, pending, crashed,
                  createAgentCalls, createSessionCalls, sessionsIssued, finalizedSeen,
                  connOk, signals, waitingForClarification, clarificationQuestions,
                  currentQuestionIndex, showProjectPlan, projectPlanText, roundStarted,
                  roundPairs, roundCalls, augmentedPrompt,
                  approvalVars, timerVars, responseVars, obsVars,
                  chatVars >>

\* ------------------------------------------- approval and the architecture graph
GraphNode(id) == [id |-> id, isLoading |-> TRUE]

GraphNodePerListedName(requiredConnections) ==
  << GraphNode("openai") >>
    \o [i \in 1..Len(requiredConnections) |-> GraphNode(requiredConnections[i])]
    \o << GraphNode("memory") >>

\* generateGenericArchitecture(requiredConnections): the list handed to setNodes.
generateGenericArchitecture(requiredConnections) ==
  << GraphNode("openai") >>
    \o (IF Includes(requiredConnections, "google") THEN << GraphNode("google") >>
        ELSE << >>)
    \o (IF Includes(requiredConnections, "jira") THEN << GraphNode("jira") >>
        ELSE << >>)
    \o (IF Includes(requiredConnections, "slack") THEN << GraphNode("slack") >>
        ELSE << >>)
    \o << GraphNode("memory") >>

\* setNodes(prev => prev.map(node => ({...node, data: {...node.data, isLoading: false}})))
Loaded(ns) == [i \in 1..Len(ns) |-> [ns[i] EXCEPT !.isLoading = FALSE]]

\* nodeIds.forEach(nodeId => { if (nodeId !== target) newEdges.push(...) })
RECURSIVE EdgesTo(_, _)
EdgesTo(ns, target) ==
  IF Len(ns) = 0 THEN << >>
  ELSE (IF ns[1].id # target
        THEN << [id |-> ns[1].id \o "-" \o target, source |-> ns[1].id,
                 target |-> target] >>
        ELSE << >>)
         \o EdgesTo(Tail(ns), target)

\* newEdges, from the nodes the handler's render saw.
NewEdges(ns) == EdgesTo(ns, "openai") \o EdgesTo(ns, "memory")

canApprove == showProjectPlan /\ currentTypingIndex = PlanLength(projectPlanText)

RemoveAt(seq, i) == SubSeq(seq, 1, i - 1) \o SubSeq(seq, i + 1, Len(seq))

\* handleProjectApproval up to its first await (POST /agents/architect).
HandleProjectApproval ==
  /\ ~crashed
  /\ canApprove
  /\ InFlight + Len(approvals) < MaxInFlight
  /\ Len(chatMessages) < ClarifyTranscriptCap
  /\ projectApproved' = TRUE
  /\ showProjectPlan' = FALSE
  /\ showArchitecture' = TRUE
  /\ chatMessages' =
       AppendUserMessage(chatMessages, "Yes, please proceed with the build!")
  /\ approvals' =
       Append(approvals,
              [stage |-> "architect", closureNodes |-> nodes, config |-> NullConfig])
  /\ touched' = TRUE
  /\ event' = "other"
  /\ repeatMsg' = FALSE
  /\ UNCHANGED << userPrompt, isBuilding, buildProgress, isAgentReady, buildSession,
                  showThinking, showConnectionModal, connectionConfig, agentConfig,
                  savedAgentId, pending, crashed, createAgentCalls,
                  createSessionCalls, sessionsIssued, finalizedSeen, connOk, signals,
                  waitingForClarification, clarificationQuestions,
                  currentQuestionIndex, projectPlanText, currentTypingIndex,
                  roundStarted, roundPairs, roundCalls, augmentedPrompt, nodes, edges,
                  timerVars, responseVars, obsVars,
                  chatVars >>

\* The tail of handleProjectApproval: the nodes stop loading and the edges are
\* built from the nodes of the render the handler was called in.
FinishGraph(ns, closureNodes) ==
  /\ nodes' = Loaded(ns)
  /\ edges' = NewEdges(closureNodes)
  /\ edgeNodes' = closureNodes

\* POST /agents/architect answered 2xx with body config: setAgentConfig(config);
\* reading config.prerequisites of a null body throws into the outer catch and the
\* tail runs; a configuration that needs database credentials opens the
\* connection modal and the handler returns; otherwise POST /agents is issued.
ArchitectResolves(i, config) ==
  /\ ~crashed
  /\ i \in 1..Len(approvals) /\ approvals[i].stage = "architect"
  /\ agentConfig' = config
  /\ chatMessages' =
       CompletionEffect(chatMessages, isAgentReady, config,
                        ConfigChanged(agentConfig, config))
  /\ Len(chatMessages') <= ClarifyTranscriptCap
  /\ touched' = (touched \/ chatMessages' # chatMessages)
  /\ IF config.isNull
     THEN /\ FinishGraph(nodes, approvals[i].closureNodes)
          /\ approvals' = RemoveAt(approvals, i)
          /\ UNCHANGED << createAgentCalls, showConnectionModal >>
     ELSE IF config.database_credentials
     THEN /\ showConnectionModal' = TRUE
          /\ approvals' = RemoveAt(approvals, i)
          /\ UNCHANGED << createAgentCalls, nodes, edges, edgeNodes >>
     ELSE /\ createAgentCalls < MaxCalls
          /\ createAgentCalls' = createAgentCalls + 1
          /\ approvals' =
               [approvals EXCEPT ![i] = [@ EXCEPT !.stage = "save", !.config = config]]
          /\ UNCHANGED << showConnectionModal, nodes, edges, edgeNodes >>
  /\ event' = "other"
  /\ repeatMsg' = FALSE
  /\ UNCHANGED << userPrompt, isBuilding, buildProgress, isAgentReady, buildSession,
                  showThinking, showArchitecture, connectionConfig, savedAgentId,
                  pending, crashed, createSessionCalls, sessionsIssued,
                  finalizedSeen, connOk, signals, analysisVars, projectApproved,
                  timerVars, responseVars, ticksSinceStart, unhandledLog,
                  reanalysisNeeds, graphInput, chatVars >>

\* POST /agents/architect fails: the outer catch logs and the tail runs.
ArchitectFails(i) ==
  /\ ~crashed
  /\ i \in 1..Len(approvals) /\ approvals[i].stage = "architect"
  /\ FinishGraph(nodes, approvals[i].closureNodes)
  /\ approvals' = RemoveAt(approvals, i)
  /\ event' = "other"
  /\ repeatMsg' = FALSE
  /\ UNCHANGED << userPrompt, isBuilding, buildProgress, isAgentReady, buildSession,
                  chatMessages, showThinking, showArchitecture, showConnectionModal,
                  connectionConfig, agentConfig, savedAgentId, pending, crashed,
                  createAgentCalls, createSessionCalls, sessionsIssued, finalizedSeen,
                  connOk, touched, signals, analysisVars, projectApproved, timerVars,
                  responseVars, ticksSinceStart, unhandledLog, reanalysisNeeds,
                  graphInput,
                  chatVars >>

\* POST /agents of handleProjectApproval answered 2xx: setSavedAgentId,
\* onProgressUpdate(0), generateGenericArchitecture unless the templateMatch prop
\* names a template, and the tail.
ApprovalSaveResolves(i, id, template) ==
  /\ ~crashed
  /\ i \in 1..Len(approvals) /\ approvals[i].stage = "save"
  /\ savedAgentId' = id
  /\ showArchitecture' = TRUE
  /\ buildProgress' = 0
  /\ isBuilding' = ParentBuilding(0, isBuilding)
  /\ signals' = IF isBuilding THEN signals ELSE 0
  /\ activeIntervals' =
       IntervalsAfterEffect(activeIntervals, effectInterval, isBuilding',
                            << isBuilding', buildProgress' >>
                              # << isBuilding, buildProgress >>)
  /\ effectInterval' =
       HeldAfterEffect(effectInterval, isBuilding',
                       << isBuilding', buildProgress' >> # << isBuilding, buildProgress >>)
  /\ ticksSinceStart' = 0
  /\ graphInput' = IF template THEN graphInput
                   ELSE [built |-> TRUE, list |-> approvals[i].config.oauth]
  /\ FinishGraph(IF template THEN nodes
                 ELSE generateGenericArchitecture(approvals[i].config.oauth),
                 approvals[i].closureNodes)
  /\ approvals' = RemoveAt(approvals, i)
  /\ event' = IF template THEN "approvedtemplate" ELSE "approved"
  /\ repeatMsg' = FALSE
  /\ UNCHANGED << userPrompt, isAgentReady, buildSession, chatMessages, showThinking,
                  showConnectionModal, connectionConfig, agentConfig, pending,
                  crashed, createAgentCalls, createSessionCalls, sessionsIssued,
                  finalizedSeen, connOk, touched, analysisVars, projectApproved,
                  responseVars, unhandledLog, reanalysisNeeds,
                  chatVars >>

\* POST /agents of handleProjectApproval fails: the inner catch logs and returns.
ApprovalSaveFails(i) ==
  /\ ~crashed
  /\ i \in 1..Len(approvals) /\ approvals[i].stage = "save"
  /\ approvals' = RemoveAt(approvals, i)
  /\ event' = "other"
  /\ repeatMsg' = FALSE
  /\ UNCHANGED << userPrompt, isBuilding, buildProgress, isAgentReady, buildSession,
                  chatMessages, showThinking, showArchitecture, showConnectionModal,
                  connectionConfig, agentConfig, savedAgentId, pending, crashed,
                  createAgentCalls, createSessionCalls, sessionsIssued, finalizedSeen,
                  connOk, touched, signals, analysisVars, projectApproved, nodes,
                  edges, timerVars, responseVars, obsVars,
                  chatVars >>

\* ------------------------------------------------- the post-build agent chat
ChatReplies == {"r1"}

ChatError == "Sorry, I encountered an error. Please try again."

\* The Test Agent button, rendered when isAgentReady.
HandleTestAgent ==
  /\ ~crashed
  /\ isAgentReady
  /\ showDatabaseChat' = (IF savedAgentId # NoId THEN TRUE ELSE showDatabaseChat)
  /\ event' = "other"
  /\ UNCHANGED << pending, databaseMessages, isDatabaseThinking >>
  /\ repeatMsg' = FALSE
  /\ UNCHANGED << userPrompt, isBuilding, buildProgress, isAgentReady, buildSession,
                  chatMessages, showThinking, showArchitecture, showConnectionModal,
                  connectionConfig, agentConfig, savedAgentId, crashed,
                  createAgentCalls, createSessionCalls, sessionsIssued, finalizedSeen,
                  connOk, touched, signals, analysisVars, approvalVars, timerVars,
                  responseVars, obsVars >>

\* The chat modal's close button.
CloseDatabaseChat ==
  /\ ~crashed
  /\ showDatabaseChat
  /\ showDatabaseChat' = FALSE
  /\ event' = "other"
  /\ UNCHANGED << pending, databaseMessages, isDatabaseThinking >>
  /\ repeatMsg' = FALSE
  /\ UNCHANGED << userPrompt, isBuilding, buildProgress, isAgentReady, buildSession,
                  chatMessages, showThinking, showArchitecture, showConnectionModal,
                  connectionConfig, agentConfig, savedAgentId, crashed,
                  createAgentCalls, createSessionCalls, sessionsIssued, finalizedSeen,
                  connOk, touched, signals, analysisVars, approvalVars, timerVars,
                  responseVars, obsVars >>

ChatFormAlwaysEnabled == TRUE

\* The textarea and the submit button are disabled while isDatabaseThinking.
ChatFormEnabled == ~isDatabaseThinking

\* if (databaseInput.trim() && savedAgentId)
ChatAccepted(raw, id) == Trim(raw) # "" /\ id # NoId

\* handleDatabaseChat up to its await.
HandleDatabaseChat(raw) ==
  /\ ~crashed
  /\ showDatabaseChat
  /\ ChatFormEnabled
  /\ ChatAccepted(raw, savedAgentId)
  /\ Len(databaseMessages) < 2 * MaxTranscript
  /\ InFlight < MaxInFlight
  /\ databaseMessages' = Append(databaseMessages, Msg("user", Trim(raw)))
  /\ isDatabaseThinking' = TRUE
  /\ pending' = Issue(pending, <<"chat", 0>>)
  /\ event' = "chat"
  /\ UNCHANGED showDatabaseChat
  /\ repeatMsg' = FALSE
  /\ UNCHANGED << userPrompt, isBuilding, buildProgress, isAgentReady, buildSession,
                  chatMessages, showThinking, showArchitecture, showConnectionModal,
                  connectionConfig, agentConfig, savedAgentId, crashed,
                  createAgentCalls, createSessionCalls, sessionsIssued, finalizedSeen,
                  connOk, touched, signals, analysisVars, approvalVars, timerVars,
                  responseVars, obsVars >>

\* handleDatabaseChat when its condition fails: nothing happens.
HandleDatabaseChatIgnored(raw) ==
  /\ ~crashed
  /\ showDatabaseChat
  /\ ChatFormEnabled
  /\ ~ChatAccepted(raw, savedAgentId)
  /\ event' = "ignored"
  /\ UNCHANGED << pending, chatVars >>
  /\ repeatMsg' = FALSE
  /\ UNCHANGED << userPrompt, isBuilding, buildProgress, isAgentReady, buildSession,
                  chatMessages, showThinking, showArchitecture, showConnectionModal,
                  connectionConfig, agentConfig, savedAgentId, crashed,
                  createAgentCalls, createSessionCalls, sessionsIssued, finalizedSeen,
                  connOk, touched, signals, analysisVars, approvalVars, timerVars,
                  responseVars, obsVars >>

\* POST /agents/{id}/chat settles: the response's text, or the error text from the
\* catch, is appended, and finally clears isDatabaseThinking.
ChatResolves(ok, reply) ==
  /\ ~crashed
  /\ pending[<<"chat", 0>>] > 0
  /\ pending' = Settle(pending, <<"chat", 0>>)
  /\ databaseMessages' =
       Append(databaseMessages, Msg("agent", IF ok THEN reply ELSE ChatError))
  /\ isDatabaseThinking' = FALSE
  /\ event' = "chatreply"
  /\ UNCHANGED showDatabaseChat
  /\ repeatMsg' = FALSE
  /\ UNCHANGED << userPrompt, isBuilding, buildProgress, isAgentReady, buildSession,
                  chatMessages, showThinking, showArchitecture, showConnectionModal,
                  connectionConfig, agentConfig, savedAgentId, crashed,
                  createAgentCalls, createSessionCalls, sessionsIssued, finalizedSeen,
                  connOk, touched, signals, analysisVars, approvalVars, timerVars,
                  responseVars, obsVars >>

\* ------------------------------------------------------ specifications
\* The transcript and the session's creation: prompt changes, typed messages and
\* the server's messages.
TranscriptSnapshots ==
  SnapshotsWithHistory({"WAITING_FOR_USER_INPUT", "INITIATED"}, HistEntries)

Next ==
  \/ \E p \in Prompts : ChangeUserPrompt(p)
  \/ \E raw \in RawInputs : HandleSendMessage(raw)
  \/ \E s \in TranscriptSnapshots : CreateResolves(s)
  \/ \E s \in TranscriptSnapshots : ContinueResolves("message", s)
  \/ \E k \in {"create", "message"}, id \in 0..MaxCalls : RequestFails(k, id)

Spec == Init /\ [][Next]_vars

\* Persistence and the credential gate: the server states the effect dispatches on
\* and one it does not know, configurations with and without the database
\* prerequisite, and the credential form.
GateStates ==
  { "WAITING_FOR_USER_INPUT", "CONFIGURATION_FINALIZED", "REQUEST_DB_CREDENTIALS",
    "COMPLETED", "DB_CONNECTION_FAILED", "INITIATED" }

GateSnapshots == Snapshots(GateStates, ServerConfigs, UiRequests)

EditedFields == {"hostname", "port"}

NextGate ==
  \/ HandleConnectionSubmit
  \/ CloseConnectionModal
  \/ \E f \in EditedFields, v \in ConnValues : EditConnectionField(f, v)
  \/ \E s \in GateSnapshots : CreateResolves(s)
  \/ \E s \in GateSnapshots : ContinueResolves("connection", s)
  \/ \E k \in {"create", "connection"}, id \in 0..MaxCalls : RequestFails(k, id)
  \/ \E ok \in BOOLEAN, id \in AgentIds : SaveResolves(ok, id)

SpecGate == Init /\ [][NextGate]_vars

\* The build: finalized and completed snapshots, file uploads answered while the
\* progress simulator runs, and the simulator's ticks.
ProgressSnapshots ==
  Snapshots({"WAITING_FOR_USER_INPUT", "CONFIGURATION_FINALIZED", "COMPLETED",
             "FAILED"},
            {CfgPlain}, {"none"})

NextProgress ==
  \/ UploadFile
  \/ \E s \in ProgressSnapshots : CreateResolves(s)
  \/ \E s \in ProgressSnapshots : ContinueResolves("upload", s)
  \/ \E ok \in BOOLEAN, id \in AgentIds : SaveResolves(ok, id)
  \/ Tick

SpecProgress == Init /\ [][NextProgress]_vars


\* Analysis, clarification rounds and the project plan.
NextAnalysis ==
  \/ PerformLLMAnalysis
  \/ \E r \in AnalysisResults : AnalysisResolves(r)
  \/ AnalysisFails
  \/ \E answer \in Answers : HandleClarificationAnswer(answer)
  \/ \E r \in AnalysisResults : ReanalysisResolves(r)
  \/ ReanalysisFails
  \/ TypeNext

SpecAnalysis == Init /\ [][NextAnalysis]_vars

\* A session that fails: chat, upload and a new prompt afterwards.
FailedSnapshots ==
  Snapshots({"WAITING_FOR_USER_INPUT", "FAILED"}, {NullConfig}, {"none"})

NextFailed ==
  \/ \E p \in Prompts : ChangeUserPrompt(p)
  \/ \E raw \in RawInputs : HandleSendMessage(raw)
  \/ UploadFile
  \/ \E s \in FailedSnapshots : CreateResolves(s)
  \/ \E s \in FailedSnapshots : ContinueResolves("message", s)
  \/ \E s \in FailedSnapshots : ContinueResolves("upload", s)
  \/ \E id \in 0..MaxCalls : RequestFails("message", id)

SpecFailed == Init /\ [][NextFailed]_vars

\* The project plan, its approval and the progress simulator.
PlanResults ==
  {r \in AnalysisResults :
     ~r.needsClarification /\ ~r.hasQuestions /\ r.projectPlan = "plan"}

\* Bodies of POST /agents/architect.
ArchitectConfigs == {CfgPlain, NullConfig}

ApprovalSnapshots == Snapshots({"CONFIGURATION_FINALIZED"}, {CfgPlain}, {"none"})

NextApproval ==
  \/ PerformLLMAnalysis
  \/ \E r \in PlanResults : AnalysisResolves(r)
  \/ TypeNext
  \/ HandleProjectApproval
  \/ \E i \in 1..MaxInFlight, config \in ArchitectConfigs : ArchitectResolves(i, config)
  \/ \E i \in 1..MaxInFlight : ArchitectFails(i)
  \/ \E i \in 1..MaxInFlight, id \in AgentIds, template \in BOOLEAN :
       ApprovalSaveResolves(i, id, template)
  \/ \E i \in 1..MaxInFlight : ApprovalSaveFails(i)
  \/ \E s \in ApprovalSnapshots : CreateResolves(s)
  \/ \E ok \in BOOLEAN, id \in AgentIds : SaveResolves(ok, id)
  \/ Tick

SpecApproval == Init /\ [][NextApproval]_vars

\* The architecture graph: the approval flow alone, one approval at a time until
\* a graph has been generated, the architect answering with every repetition-free
\* list of up to MaxConnections connection names.
MaxConnections == 2

ConnNames == {"google", "jira", "slack", "github"}

ConnectionLists ==
  {l \in UNION {[1..n -> ConnNames] : n \in 0..MaxConnections} :
     \A i, j \in 1..Len(l) : i # j => l[i] # l[j]}

GraphConfigs ==
  {[CfgPlain EXCEPT !.oauth = l] : l \in ConnectionLists} \cup {NullConfig}

\* The Approve button pressed while no approval is under way and no graph exists.
ApproveGraph == approvals = << >> /\ ~graphInput.built /\ HandleProjectApproval

NextGraph ==
  \/ PerformLLMAnalysis
  \/ \E r \in PlanResults : AnalysisResolves(r)
  \/ TypeNext
  \/ ApproveGraph
  \/ \E config \in GraphConfigs : ArchitectResolves(1, config)
  \/ ArchitectFails(1)
  \/ \E id \in AgentIds, template \in BOOLEAN : ApprovalSaveResolves(1, id, template)
  \/ ApprovalSaveFails(1)

SpecGraph == Init /\ [][NextGraph]_vars

\* The three handlers that append a local user message: the chat form with its
\* session, a clarification round and the approval of the plan.
LocalResults ==
  {r \in AnalysisResults :
     r.projectPlan = "plan" /\ Len(r.suggestedQuestions) <= 1
       /\ (r.needsClarification <=> r.hasQuestions)}

LocalSnapshots == SnapshotsWithHistory({"WAITING_FOR_USER_INPUT"}, HistEntries)

NextLocal ==
  \/ \E raw \in RawInputs : HandleSendMessage(raw)
  \/ \E s \in LocalSnapshots : CreateResolves(s)
  \/ \E s \in LocalSnapshots : ContinueResolves("message", s)
  \/ PerformLLMAnalysis
  \/ \E r \in LocalResults : AnalysisResolves(r)
  \/ \E answer \in Answers : HandleClarificationAnswer(answer)
  \/ ReanalysisFails
  \/ TypeNext
  \/ HandleProjectApproval
  \/ \E i \in 1..MaxInFlight : ArchitectFails(i)

SpecLocal == Init /\ [][NextLocal]_vars

\* The completion message: a build finalized with every configuration over the
\* connection names generateAgentSuccessMessage looks for and one it does not,
\* with and without the supabase_query tool, run to its completion.
MessageConnNames == {"gmail", "google", "slack", "jira", "github"}

MessageConfigs ==
  {[CfgPlain EXCEPT !.oauth = l, !.tools = t] :
     l \in {l \in UNION {[1..n -> MessageConnNames] : n \in 0..MaxConnections} :
              \A i, j \in 1..Len(l) : i # j => l[i] # l[j]},
     t \in {{}, {"supabase_query"}}}

MessageSnapshots == Snapshots({"CONFIGURATION_FINALIZED"}, MessageConfigs, {"none"})

NextMessage ==
  \/ \E s \in MessageSnapshots : CreateResolves(s)
  \/ \E ok \in BOOLEAN, id \in AgentIds : SaveResolves(ok, id)
  \/ Tick

SpecMessage == Init /\ [][NextMessage]_vars

\* The handlers that need a session, called with and without one: the session may
\* never arrive, while the plan's approval can open the connection modal.
IdleSnapshots ==
  Snapshots({"WAITING_FOR_USER_INPUT", "REQUEST_DB_CREDENTIALS"}, {NullConfig},
            {"none"})

NextIdle ==
  \/ \E raw \in RawInputs : HandleSendMessage(raw)
  \/ \E raw \in RawInputs : HandleSendMessageIgnored(raw)
  \/ HandleConnectionSubmit
  \/ HandleConnectionSubmitIgnored
  \/ UploadFile
  \/ UploadFileIgnored
  \/ CloseConnectionModal
  \/ \E s \in IdleSnapshots : CreateResolves(s)
  \/ \E k \in {"create", "message", "connection", "upload"}, id \in 0..MaxCalls :
       RequestFails(k, id)
  \/ PerformLLMAnalysis
  \/ \E r \in PlanResults : AnalysisResolves(r)
  \/ TypeNext
  \/ HandleProjectApproval
  \/ \E i \in 1..MaxInFlight : ArchitectResolves(i, CfgDb)

SpecIdle == Init /\ [][NextIdle]_vars

\* The post-build agent chat: a build answered COMPLETED with and without an agent
\* id, run to its completion, then the Test Agent button and the chat form.
ChatSnapshots == Snapshots({"COMPLETED"}, {CfgPlain, CfgDb}, {"none"})

NextChat ==
  \/ \E s \in ChatSnapshots : CreateResolves(s)
  \/ Tick
  \/ HandleTestAgent
  \/ CloseDatabaseChat
  \/ \E raw \in RawInputs : HandleDatabaseChat(raw)
  \/ \E raw \in RawInputs : HandleDatabaseChatIgnored(raw)
  \/ \E ok \in BOOLEAN, reply \in ChatReplies : ChatResolves(ok, reply)

SpecChat == Init /\ [][NextChat]_vars

\* The progress simulator with its interval firing as long as it is armed.
SpecProgressFair == Init /\ [][NextProgress]_vars /\ WF_vars(Tick)

\* ------------------------------------------------------------ properties

\* C1: for any sequence of snapshots in which CONFIGURATION_FINALIZED (with a
\* configuration) appears one or more times, exactly one create-agent call
\* (POST /agents) has been issued.
C1_ExactlyOneCreateAgentCall == finalizedSeen => createAgentCalls = 1

\* C2: a create-agent call for a configuration whose
\* prerequisites.database_credentials is true is issued only once a continue call
\* carrying a connection string has returned successfully.
C2_NoSaveBeforeCredentials ==
  [][ (createAgentCalls' > createAgentCalls /\ agentConfig'.database_credentials)
        => connOk' ]_vars

\* C3: when a snapshot replacement carries, as its newest history entry, the same
\* messageToUser as the replacement before it, and nothing else touched the
\* transcript in between, the transcript is left unchanged.
C3_TranscriptIdempotence ==
  [][ ( /\ event' = "snapshot"
        /\ ~crashed'
        /\ ~touched
        /\ LastMessage(buildSession) # NoMsg
        /\ LastMessage(buildSession') = LastMessage(buildSession) )
        => chatMessages' = chatMessages ]_vars

C3_Witness ==
  /\ event = "snapshot" /\ repeatMsg
  /\ Len(chatMessages) > 0 /\ Last(chatMessages).content = LastMessage(buildSession)

\* C6: while the progress simulator runs, the progress reported through
\* onProgressUpdate never decreases and never exceeds 100, whatever snapshot
\* arrives meanwhile.
C6_ProgressMonotone ==
  [][ isBuilding => (buildProgress' >= buildProgress /\ buildProgress' <= ProgressDone)
    ]_vars

C9_ConnectionFailedKeepsGate ==
  [][ (event' = "snapshot" /\ buildSession'.state = "DB_CONNECTION_FAILED")
        => ( /\ showConnectionModal'
             /\ createAgentCalls' = createAgentCalls
             /\ pending'[<<"save", 0>>] = pending[<<"save", 0>>]
             /\ connectionConfig' = connectionConfig ) ]_vars

C9_Witness ==
  /\ event = "snapshot" /\ buildSession.state = "DB_CONNECTION_FAILED"
  /\ showConnectionModal
  /\ connectionConfig # DefaultConnectionConfig

\* C10: once a session object exists, a change of userPrompt issues no further
\* create-session request and does not replace the session.
C10_OneSessionPerPrompt ==
  [][ (userPrompt' # userPrompt /\ buildSession # NoSession)
        => ( /\ createSessionCalls' = createSessionCalls
             /\ pending' = pending
             /\ buildSession' = buildSession ) ]_vars

C10_Witness ==
  /\ event = "prompt" /\ userPrompt # "" /\ buildSession # NoSession
  /\ createSessionCalls = 1

\* C4: in a clarification round with K >= 1 questions, clarification mode is left
\* after exactly the K-th answer, not before, and exactly one re-analysis request
\* is issued for the round.
C4_RoundExitsAfterKAnswers ==
  (roundStarted /\ Len(clarificationQuestions) >= 1) =>
    /\ waitingForClarification =>
         /\ Len(roundPairs) < Len(clarificationQuestions)
         /\ currentQuestionIndex = Len(roundPairs)
         /\ roundCalls = 0
    /\ ~waitingForClarification =>
         /\ Len(roundPairs) = Len(clarificationQuestions)
         /\ roundCalls = 1

C4_Witness ==
  /\ roundStarted
  /\ ~waitingForClarification
  /\ Len(clarificationQuestions) = 2
  /\ Len(roundPairs) = 2
  /\ roundCalls = 1
  /\ pending[<<"reanalysis", 0>>] = 1

\* C5: the augmented prompt of the round's re-analysis request holds the original
\* prompt and every question/answer pair given in the round.
C5_AugmentedPromptHasAllPairs ==
  augmentedPrompt # << >> =>
    /\ augmentedPrompt[1] = userPrompt
    /\ \A i \in 1..Len(roundPairs) :
         \E j \in 1..(Len(augmentedPrompt) - 2) :
           /\ augmentedPrompt[j] = roundPairs[i][1]
           /\ augmentedPrompt[j + 1] = ": "
           /\ augmentedPrompt[j + 2] = roundPairs[i][2]

\* C11: two continue requests (chat message or connection string) for the same
\* session are never in flight at once.
C11_NoOverlappingContinue ==
  \A id \in 0..MaxCalls :
    pending[<<"message", id>>] + pending[<<"connection", id>>] <= 1

\* C12: the stored snapshot is the body of the successful response that resolved
\* last, whole, whatever else was in flight when it resolved.
C12_LastWriteWins == lastResponse # NoSession => buildSession = lastResponse

C12_Witness ==
  /\ overlap
  /\ SessionRequests(pending) = 0
  /\ buildSession # NoSession
  /\ buildSession = lastResponse

\* C13: a failed create, continue or upload call leaves the stored snapshot as it
\* was and causes none of the snapshot-driven effects: no message appended, no
\* modal change, no create-agent call, no progress reset.
C13_FailureLeavesState ==
  [][ event' = "fail" =>
        /\ buildSession' = buildSession
        /\ chatMessages' = chatMessages
        /\ showConnectionModal' = showConnectionModal
        /\ createAgentCalls' = createAgentCalls
        /\ buildProgress' = buildProgress
        /\ isBuilding' = isBuilding ]_vars

C13_Witness ==
  /\ event = "fail"
  /\ buildSession # NoSession
  /\ showConnectionModal

\* C14: once a FAILED snapshot is stored, the thinking indicator is clear when it is
\* applied, no continue or upload request is issued for that session and the
\* snapshot is not replaced.
C14_FailedIsTerminal ==
  [][ /\ (event' = "snapshot" /\ ~crashed' /\ buildSession'.state = "FAILED")
           => ~showThinking'
      /\ buildSession.state = "FAILED" =>
           /\ buildSession'.build_id = buildSession.build_id
                => buildSession' = buildSession
           /\ \A kind \in {"message", "connection", "upload"} :
                pending'[<<kind, buildSession.build_id>>]
                  <= pending[<<kind, buildSession.build_id>>] ]_vars

\* C15: the completion announcement occurs at most once in the transcript.
C15_AnnouncedOnce ==
  Cardinality({i \in 1..Len(chatMessages) :
                 chatMessages[i].content \in SuccessMessages}) <= 1

\* C16: every step leaves the previous transcript as a prefix of the new one.
C16_TranscriptOnlyGrows ==
  [][ /\ Len(chatMessages) <= Len(chatMessages')
      /\ SubSeq(chatMessages', 1, Len(chatMessages)) = chatMessages ]_vars

\* C17: no effect or handler ends in an uncaught exception.
C17_NoUncaughtFault == ~crashed

\* C19: while the stored snapshot is FAILED, progress is not incremented and
\* no completion is signalled.
C19_FailedStopsSimulator ==
  [][ (buildSession.state = "FAILED" /\ buildSession'.state = "FAILED") =>
        /\ buildProgress' <= buildProgress
        /\ signals' <= signals ]_vars

\* C20: at most one progress interval is live in any state: a re-run of the
\* progress effect clears the interval of the previous run before it arms one.
C20_OneTimer == activeIntervals <= 1 /\ (effectInterval <=> activeIntervals = 1)

C20_Witness ==
  /\ event = "tick"
  /\ buildProgress > 0 /\ isBuilding
  /\ activeIntervals = 1

\* C18: progress advances only after a CONFIGURATION_FINALIZED or COMPLETED
\* snapshot was observed and the user approved the plan.
C18_TicksNeedSnapshotAndApproval ==
  [][ buildProgress' > buildProgress => (observedFinal /\ projectApproved) ]_vars

\* C21: a tick reports the current progress plus 2, or exactly 100 when that sum
\* reaches 100; nothing above 100 is reported, and counted from a progress of 0
\* the value 100 is reported on the 50th tick and on no other.
C21_TickAddsTwo ==
  [][ event' = "tick" =>
        /\ buildProgress' = (IF buildProgress + 2 >= 100 THEN 100 ELSE buildProgress + 2)
        /\ buildProgress' <= 100
        /\ (buildProgress' = 100) <=> (ticksSinceStart' = 50) ]_vars

C21_Witness ==
  /\ event = "tick"
  /\ buildProgress = 100
  /\ ticksSinceStart = 50
  /\ signals = 1

\* C22: with the interval firing, a simulator that is running reaches 100 and
\* signals completion, unless a FAILED snapshot arrives.
C22_EventuallyComplete ==
  isBuilding ~> ( \/ (buildProgress = ProgressDone /\ signals >= 1)
                  \/ buildSession.state = "FAILED" )

\* C23: a snapshot that repeats the REQUEST_DB_CREDENTIALS directive of the snapshot
\* before it does not reopen a credential modal the user has closed, and leaves an
\* open one open.
C23_RepeatedDirectiveOpensOnce ==
  [][ ( /\ event' = "snapshot" /\ ~crashed'
        /\ buildSession.ui_request = "REQUEST_DB_CREDENTIALS"
        /\ buildSession'.ui_request = "REQUEST_DB_CREDENTIALS"
        /\ buildSession'.build_id = buildSession.build_id
        /\ buildSession'.state \in {"WAITING_FOR_USER_INPUT", "INITIATED"} )
        => showConnectionModal' = showConnectionModal ]_vars

C25_UnknownStateIsLoggedNoOp ==
  [][ ( /\ event' = "snapshot" /\ ~crashed'
        /\ buildSession'.state = "INITIATED"
        /\ buildSession'.ui_request = "none" )
        => /\ showThinking' = showThinking
           /\ showConnectionModal' = showConnectionModal
           /\ showArchitecture' = showArchitecture
           /\ agentConfig' = agentConfig
           /\ savedAgentId' = savedAgentId
           /\ buildProgress' = buildProgress
           /\ createAgentCalls' = createAgentCalls
           /\ unhandledLog' ]_vars

C27_ReanalysisStartsNewRound ==
  [][ (event' = "reanalysis" /\ reanalysisNeeds') =>
        /\ waitingForClarification'
        /\ currentQuestionIndex' = 0
        /\ ~showProjectPlan' ]_vars

\* C28: a failed analysis or re-analysis request releases the thinking indicator and
\* leaves the transcript, the cursor and the clarification mode as they were.
C28_AnalysisFailureReleases ==
  [][ event' = "analysisfail" =>
        /\ ~showThinking'
        /\ chatMessages' = chatMessages
        /\ currentQuestionIndex' = currentQuestionIndex
        /\ waitingForClarification' = waitingForClarification ]_vars

NodeIds(ns) == [i \in 1..Len(ns) |-> ns[i].id]

Hubs == {"openai", "memory"}

\* C29: the edges connect every node other than openai and memory, of the node list
\* they were built from, to both openai and memory, and there is no other edge: none
\* has openai or memory as its source.
C29_EdgesFromConnectorsOnly ==
  /\ \A i \in 1..Len(edgeNodes) :
       edgeNodes[i].id \notin Hubs =>
         \A hub \in Hubs :
           \E k \in 1..Len(edges) :
             edges[k].source = edgeNodes[i].id /\ edges[k].target = hub
  /\ \A k \in 1..Len(edges) :
       /\ edges[k].source \notin Hubs
       /\ edges[k].target \in Hubs
       /\ \E i \in 1..Len(edgeNodes) : edgeNodes[i].id = edges[k].source

NodeRank(id) ==
  CASE id = "openai" -> 1
    [] id = "google" -> 2
    [] id = "jira" -> 3
    [] id = "slack" -> 4
    [] id = "memory" -> 5
    [] OTHER -> 0

\* C30: the node list generated for a list of connection names starts with openai,
\* ends with memory, holds google, jira and slack exactly when the list names them,
\* in that order, each once, and holds no node for any other name.
C30_NodesOfGenericArchitecture ==
  graphInput.built =>
    LET ids == NodeIds(nodes) IN
      /\ Len(ids) >= 2
      /\ ids[1] = "openai"
      /\ ids[Len(ids)] = "memory"
      /\ \A c \in {"google", "jira", "slack"} :
           (\E i \in 1..Len(ids) : ids[i] = c)
             <=> (\E j \in 1..Len(graphInput.list) : graphInput.list[j] = c)
      /\ \A i \in 1..Len(ids) : NodeRank(ids[i]) > 0
      /\ \A i, j \in 1..Len(ids) : i < j => NodeRank(ids[i]) < NodeRank(ids[j])

C30_Witness ==
  /\ graphInput.built
  /\ graphInput.list = << "github", "jira" >>
  /\ NodeIds(nodes) = << "openai", "jira", "memory" >>

\* C31: a local user message (typed input, the approval click, a clarification
\* answer) is the last entry of the transcript after the handler's own step, the
\* step that issues the request, whether or not its text equals the entry before.
C31_LocalMessagesAppended ==
  [][ /\ event' = "send" =>
           /\ \E raw \in RawInputs :
                chatMessages' = Append(chatMessages, Msg("user", Trim(raw)))
           /\ \E id \in 0..MaxCalls :
                pending'[<<"message", id>>] = pending[<<"message", id>>] + 1
      /\ Len(approvals') > Len(approvals) =>
           chatMessages' =
             Append(chatMessages, Msg("user", "Yes, please proceed with the build!"))
      /\ Len(roundPairs') > Len(roundPairs) =>
           /\ Len(chatMessages') = Len(chatMessages) + 2
           /\ SubSeq(chatMessages', 1, Len(chatMessages)) = chatMessages
           /\ Last(chatMessages') = Msg("user", Last(roundPairs')[2])
    ]_vars

C31_Witness ==
  /\ event = "send"
  /\ Len(chatMessages) >= 2
  /\ Last(chatMessages).type = "user"
  /\ chatMessages[Len(chatMessages) - 1].content = Last(chatMessages).content
  /\ InFlight = 1

\* C32: a snapshot's message is appended unless the most recent agent message of the
\* transcript has the same content; a user message in between with that content
\* does not suppress it.
C32_DedupAgainstAgentMessages ==
  [][ LET agentAt == {i \in 1..Len(chatMessages) : chatMessages[i].type = "agent"}
          lastAgent == IF agentAt = {} THEN NoMsg
                       ELSE chatMessages[CHOOSE i \in agentAt :
                                           \A j \in agentAt : j <= i].content
          lastMessage == LastMessage(buildSession')
      IN ( /\ event' = "snapshot" /\ ~crashed'
           /\ lastMessage # NoMsg
           /\ lastAgent # lastMessage )
           => chatMessages' = Append(chatMessages, Msg("agent", lastMessage)) ]_vars

\* C33: a snapshot step appends the newest history entry whose message is not in the
\* transcript, wherever that entry stands in the history, and appends nothing when
\* every message of the history is already in the transcript.
C33_NewestUnseenAppended ==
  [][ LET history == buildSession'.history
          present == {chatMessages[i].content : i \in 1..Len(chatMessages)}
          unseen == {i \in 1..Len(history) :
                       history[i] # NoMsg /\ history[i] \notin present}
      IN (event' = "snapshot" /\ ~crashed') =>
           chatMessages' =
             IF unseen = {} THEN chatMessages
             ELSE Append(chatMessages,
                         Msg("agent", history[CHOOSE i \in unseen :
                                                \A j \in unseen : j <= i])) ]_vars

\* C34: the announcement made when the agent becomes ready names the agent type and
\* capabilities of the first rule that matches the configuration, in the order
\* gmail or google, slack, jira, the supabase_query tool, and otherwise the general
\* purpose type with the raw connection list or 'intelligent conversation'.
C34_FirstMatchingRuleWins ==
  [][ LET oauth == agentConfig'.oauth
          Has(c) == \E i \in 1..Len(oauth) : oauth[i] = c
          mail == Has("gmail") \/ Has("google")
          query == "supabase_query" \in agentConfig'.tools
          Text(type, capabilities) ==
            "Your " \o type \o " agent is ready! You can now test it with "
              \o JoinComma(capabilities) \o " capabilities"
              \o " and start leveraging its features."
          said == Last(chatMessages').content
      IN (isAgentReady' /\ ~isAgentReady /\ ~agentConfig'.isNull) =>
           /\ Len(chatMessages') = Len(chatMessages) + 1
           /\ Last(chatMessages').type = "agent"
           /\ mail =>
                said = Text("Email Management",
                            << "Gmail integration", "email automation" >>)
           /\ (~mail /\ Has("slack")) =>
                said = Text("Communication",
                            << "Slack integration", "team collaboration" >>)
           /\ (~mail /\ ~Has("slack") /\ Has("jira")) =>
                said = Text("Project Management",
                            << "Jira integration", "issue tracking" >>)
           /\ (~mail /\ ~Has("slack") /\ ~Has("jira") /\ query) =>
                said = Text("Database", << "database queries", "data analysis" >>)
           /\ (~mail /\ ~Has("slack") /\ ~Has("jira") /\ ~query) =>
                said = Text("General Purpose AI",
                            IF Len(oauth) > 0 THEN oauth
                            ELSE << "intelligent conversation" >>)
    ]_vars

C34_Witness ==
  /\ isAgentReady
  /\ agentConfig.oauth = << "jira", "slack" >>
  /\ "supabase_query" \in agentConfig.tools
  /\ Len(chatMessages) > 0
  /\ Last(chatMessages).content =
       "Your Communication agent is ready! You can now test it with "
         \o "Slack integration, team collaboration capabilities"
         \o " and start leveraging its features."

\* C35: the step that ends a continue request issued by handleSendMessage, a
\* response in any server state or a transport failure, leaves the thinking
\* indicator cleared.
C35_OutcomeClearsThinking ==
  [][ ( /\ ~crashed'
        /\ \E id \in 0..MaxCalls :
             pending'[<<"message", id>>] < pending[<<"message", id>>] )
        => ~showThinking' ]_vars

\* C36: once savedAgentId holds an identifier returned by the create-agent call, no
\* later step replaces it by another or by none.
C36_SavedAgentIdStable ==
  [][ (savedAgentId \in AgentIds) => (savedAgentId' = savedAgentId) ]_vars

\* C38: a mounted view issues at most one create-session request.
C38_OneCreateSessionCall == createSessionCalls <= 1

\* C37: when an approval has fetched and saved a configuration and generated its
\* nodes, the edges it stores are built from those nodes.
C37_EdgesFromGeneratedNodes ==
  [][ event' = "approved" =>
        /\ NodeIds(nodes') = NodeIds(generateGenericArchitecture(graphInput'.list))
        /\ NodeIds(edgeNodes') = NodeIds(nodes') ]_vars

\* C40: a call of handleSendMessage, handleConnectionSubmit or the upload handler
\* without a session, and a call of handleSendMessage with a message that trims to
\* nothing, issues no request and leaves the transcript, the thinking indicator and
\* the session as they were; so a step in which one of them issues a request or
\* appends a typed message is taken with a session and a non-empty message.
C40_NoSessionNoEffect ==
  [][ /\ event' = "ignored" =>
           /\ pending' = pending
           /\ chatMessages' = chatMessages
           /\ showThinking' = showThinking
           /\ buildSession' = buildSession
      /\ ( \/ event' = "send"
           \/ \E k \in {"message", "connection", "upload"}, id \in 0..MaxCalls :
                pending'[<<k, id>>] > pending[<<k, id>>] )
           => buildSession # NoSession
      /\ event' = "send" => Last(chatMessages').content # ""
    ]_vars

C40_Witness ==
  /\ event = "ignored"
  /\ buildSession = NoSession
  /\ showConnectionModal
  /\ ~showThinking
  /\ InFlight = 0

\* C39: a chat request is issued only with savedAgentId set and a message that does
\* not trim to nothing; at most one chat request is in flight, and exactly while
\* isDatabaseThinking; and the step that ends a request, with a response or with a
\* failure, appends exactly one agent message and clears isDatabaseThinking.
C39_AgentChatOneAtATime ==
  /\ [] ( /\ pending[<<"chat", 0>>] <= 1
          /\ isDatabaseThinking <=> (pending[<<"chat", 0>>] = 1) )
  /\ [][ /\ pending'[<<"chat", 0>>] > pending[<<"chat", 0>>] =>
              /\ savedAgentId # NoId
              /\ Len(databaseMessages') = Len(databaseMessages) + 1
              /\ Last(databaseMessages').type = "user"
              /\ Last(databaseMessages').content # ""
         /\ pending'[<<"chat", 0>>] < pending[<<"chat", 0>>] =>
              /\ Len(databaseMessages') = Len(databaseMessages) + 1
              /\ SubSeq(databaseMessages', 1, Len(databaseMessages)) = databaseMessages
              /\ Last(databaseMessages').type = "agent"
              /\ ~isDatabaseThinking'
         /\ databaseMessages' # databaseMessages =>
              pending'[<<"chat", 0>>] # pending[<<"chat", 0>>]
     ]_vars

C39_Witness ==
  /\ event = "chatreply"
  /\ ~isDatabaseThinking
  /\ Len(databaseMessages) = 4
  /\ databaseMessages[2] = Msg("agent", ChatError)
  /\ databaseMessages[4] = Msg("agent", "r1")

====
